---------------------------- MODULE Spec2Model ----------------------------
(***************************************************************************)
(* The dispatcher reconciliation of a KafkaChannel (package kafkachannel)  *)
(* and the secret-triggered status fan-out (package kafkasecret) of        *)
(* eventing-kafka's distributed channel controller.                        *)
(*                                                                         *)
(* Lookups go through listers (the informers' copies), writes go through   *)
(* the clientsets (the API server): the two are separate state, and a      *)
(* lister catches up with the store only when the informer syncs.          *)
(***************************************************************************)
EXTENDS Naturals, Sequences, FiniteSets, TLC

\* The KafkaChannels of the model, by their key namespace/name.
Channels == {"ns1/chan-a", "ns2/chan-a"}

NoChannel == "none"

\* What GetKafkaSecretName can answer for a topic: "" when no secret is bound.
SecretNames == {"", "kafka-secret"}

\* The Available condition of a deployment's status, as the model lets it be
\* reported: True or False.
Health == {"Available", "Unavailable"}

Absent == "absent"

\* Where a sub-resource's calls fail in one pass: nowhere, at the lookup (an
\* error that is not NotFound), or at the create call.
Faults == {"none", "get", "create"}

\* The health a deployment reports when the create call returns it.
InitialHealth == "Available"

\* Reasons of the warning events (package event).
DispatcherServiceReconciliationFailed == "DispatcherServiceReconciliationFailed"

DispatcherDeploymentReconciliationFailed == "DispatcherDeploymentReconciliationFailed"

-----------------------------------------------------------------------------
\* Channel status conditions (KafkaChannelStatus, package v1beta1)

CondTrue == [status |-> "True", reason |-> "", message |-> ""]

CondInit == [status |-> "Unknown", reason |-> "", message |-> ""]

MarkFailed(reason, message) ==
    [status |-> "False", reason |-> reason, message |-> message]

MarkUnknown(reason, message) ==
    [status |-> "Unknown", reason |-> reason, message |-> message]

\* channel.Status.MarkDispatcherFailed(reason, messageFormat, ...)
MarkDispatcherFailed(st, reason, message) ==
    [st EXCEPT !.Dispatcher = MarkFailed(reason, message)]

\* channel.Status.MarkDispatcherUnknown(reason, messageFormat, ...)
MarkDispatcherUnknown(st, reason, message) ==
    [st EXCEPT !.Dispatcher = MarkUnknown(reason, message)]

\* channel.Status.PropagateDispatcherStatus(&deployment.Status)
PropagateDispatcherStatus(st, health) ==
    [st EXCEPT !.Dispatcher =
        CASE health = "Available"   -> CondTrue
          [] health = "Unavailable" -> MarkFailed("DispatcherDeploymentFalse", "The status of Dispatcher Deployment is False")
          [] OTHER                  -> MarkUnknown("DispatcherDeploymentUnknown", "The status of Dispatcher Deployment is Unknown")]

-----------------------------------------------------------------------------
VARIABLES
    svcStore,     \* [Channels -> BOOLEAN]: the dispatcher service exists in the API server
    svcLister,    \* [Channels -> BOOLEAN]: the service lister holds it
    depStore,     \* [Channels -> {Absent} \cup Health]: the dispatcher deployment in the API server
    depLister,    \* [Channels -> {Absent} \cup Health]: the deployment lister's copy
    kafkaSecret,  \* [Channels -> SecretNames]: adminClient.GetKafkaSecretName(topic)
    config,       \* r.config: [Replicas |-> r.config.Dispatcher.Replicas]
    failing,      \* the API server's and the listers' calls may fail
    status,       \* [Channels -> status]: channel.Status of the object handed to the pass
    last,         \* what the reconcileDispatcher pass that has just returned did
    chanStore,    \* [Channels -> [rv, status]]: the KafkaChannels in the API server
    chanLister,   \* [Channels -> [rv, status]]: the KafkaChannel lister's copies
    secretLabel,  \* [Channels -> Secrets]: each channel's KafkaSecretLabel
    agg,          \* the reconcileKafkaChannelStatus pass: its position, locals and calls
    primaryWrites \* status writes of the KafkaChannel controller so far

engineVars == <<svcStore, svcLister, depStore, depLister, kafkaSecret, config, failing, status, last>>

aggVars == <<chanStore, chanLister, secretLabel, agg, primaryWrites>>

vars == <<svcStore, svcLister, depStore, depLister, kafkaSecret, config, failing, status, last,
          chanStore, chanLister, secretLabel, agg, primaryWrites>>

NoCall == [lookup |-> "none", creates |-> 0, created |-> FALSE, err |-> FALSE]

\* No object: nothing looked up by name, nothing built.
NoName == ""

NoObject == <<>>

NoPass ==
    [channel |-> NoChannel, svc |-> NoCall, dep |-> NoCall, built |-> "none",
     events |-> <<>>, err |-> FALSE,
     serviceName |-> NoName, service |-> NoObject,
     deploymentName |-> NoName, deployment |-> NoObject]

-----------------------------------------------------------------------------
\* Names

\* commonconstants.KnativeEventingNamespace: where every dispatcher service
\* and deployment lives.
KnativeEventingNamespace == "knative-eventing"

\* channel.Namespace and channel.Name of the channels of the model.
KafkaChannelNamespace(c) == IF c = "ns1/chan-a" THEN "ns1" ELSE "ns2"

KafkaChannelName(c) == "chan-a"

\* util.DispatcherDnsSafeName(channel): the name of the channel's dispatcher,
\* a transform of (namespace, name).
DispatcherDnsSafeName(c) ==
    KafkaChannelName(c) \o "-" \o KafkaChannelNamespace(c) \o "-dispatcher"

\* util.ChannelKey(channel)
ChannelKey(c) == KafkaChannelNamespace(c) \o "/" \o KafkaChannelName(c)

\* util.TopicName(channel)
TopicName(c) == KafkaChannelNamespace(c) \o "." \o KafkaChannelName(c)

-----------------------------------------------------------------------------
\* Dispatcher service

\* The name getDispatcherService looks the service up by.
getDispatcherServiceName(c) == DispatcherDnsSafeName(c)

\* The service model: its name, its namespace, and its selector's value for
\* the app label.
newDispatcherService(c) ==
    LET serviceName == DispatcherDnsSafeName(c) IN
    [name |-> serviceName, namespace |-> KnativeEventingNamespace, selector |-> serviceName]

\* r.serviceLister.Services(ns).Get(name): the lister's answer, or a failure
\* that is not NotFound.
getDispatcherService(c, getFails) ==
    IF getFails THEN "error"
    ELSE IF svcLister[c] THEN "found" ELSE "notfound"

\* r.kubeClientset.CoreV1().Services(ns).Create: the API server refuses a name
\* it already holds (AlreadyExists); any call may fail.
createService(c, createFails) ==
    ~createFails /\ ~svcStore[c]

reconcileDispatcherService_AlwaysCreates(c, getFails, createFails) ==
    LET lookup == getDispatcherService(c, getFails)
        ok == createService(c, createFails)
    IN  [lookup |-> lookup, creates |-> 1, created |-> ok, err |-> ~ok]

reconcileDispatcherService_RetriesCreate(c, getFails, createFails) ==
    LET lookup == getDispatcherService(c, getFails) IN
    IF lookup # "found"
    THEN IF lookup = "notfound"
         THEN LET ok == createService(c, createFails) IN
              [lookup |-> lookup, creates |-> IF ok THEN 1 ELSE 2, created |-> ok, err |-> ~ok]
         ELSE [lookup |-> lookup, creates |-> 0, created |-> FALSE, err |-> TRUE]
    ELSE [lookup |-> lookup, creates |-> 0, created |-> FALSE, err |-> FALSE]

\* The outcome of reconcileDispatcherService: the lookup's answer, the create
\* calls issued, whether the create succeeded, whether an error is returned.
\* No branch touches channel.Status.
reconcileDispatcherService(c, getFails, createFails) ==
    LET lookup == getDispatcherService(c, getFails) IN
    IF lookup # "found"
    THEN IF lookup = "notfound"
         THEN LET ok == createService(c, createFails) IN
              [lookup |-> lookup, creates |-> 1, created |-> ok, err |-> ~ok]
         ELSE [lookup |-> lookup, creates |-> 0, created |-> FALSE, err |-> TRUE]
    ELSE [lookup |-> lookup, creates |-> 0, created |-> FALSE, err |-> FALSE]

-----------------------------------------------------------------------------
\* Dispatcher deployment

\* r.deploymentLister.Deployments(ns).Get(name)
getDispatcherDeployment(c, getFails) ==
    IF getFails THEN "error"
    ELSE IF depLister[c] # Absent THEN "found" ELSE "notfound"

\* corev1.EnvVar with a Value, with a FieldRef, with a SecretKeyRef.
ValueVar(name, value) ==
    [name |-> name, value |-> value, fieldPath |-> "", secret |-> "", key |-> ""]

FieldRefVar(name, fieldPath) ==
    [name |-> name, value |-> "", fieldPath |-> fieldPath, secret |-> "", key |-> ""]

SecretKeyRefVar(name, secret, key) ==
    [name |-> name, value |-> "", fieldPath |-> "", secret |-> secret, key |-> key]

\* The variables dispatcherDeploymentEnvVars starts with. Values that do not
\* depend on the channel are named by the expression that gives them.
fixedEnvVars(c) ==
    << ValueVar("NamespaceEnvKey", KnativeEventingNamespace),
       FieldRefVar("PodNameEnvVarKey", "metadata.name"),
       ValueVar("ContainerNameEnvVarKEy", "DispatcherContainerName"),
       ValueVar("KnativeLoggingConfigMapNameEnvVarKey", "logging.ConfigMapName()"),
       ValueVar("MetricsPortEnvVarKey", "strconv.Itoa(r.environment.MetricsPort)"),
       ValueVar("MetricsDomainEnvVarKey", "r.environment.MetricsDomain"),
       ValueVar("HealthPortEnvVarKey", "strconv.Itoa(constants.HealthPort)"),
       ValueVar("ChannelKeyEnvVarKey", ChannelKey(c)),
       ValueVar("ServiceNameEnvVarKey", DispatcherDnsSafeName(c)),
       ValueVar("KafkaTopicEnvVarKey", TopicName(c)) >>

\* The variables appended for the secret kafkaSecret.
secretEnvVars(secret) ==
    << SecretKeyRefVar("KafkaBrokerEnvVarKey", secret, "KafkaSecretDataKeyBrokers"),
       SecretKeyRefVar("KafkaUsernameEnvVarKey", secret, "KafkaSecretDataKeyUsername"),
       SecretKeyRefVar("KafkaPasswordEnvVarKey", secret, "KafkaSecretDataKeyPassword") >>

dispatcherDeploymentEnvVars_NoCheck(c) ==
    [err |-> FALSE, envVars |-> fixedEnvVars(c) \o secretEnvVars(kafkaSecret[c])]

dispatcherDeploymentEnvVars_RepeatsUsernameKey(c) ==
    IF Len(kafkaSecret[c]) <= 0
    THEN [err |-> TRUE, envVars |-> <<>>]
    ELSE [err |-> FALSE,
          envVars |-> fixedEnvVars(c) \o
             << SecretKeyRefVar("KafkaBrokerEnvVarKey", kafkaSecret[c], "KafkaSecretDataKeyBrokers"),
                SecretKeyRefVar("KafkaUsernameEnvVarKey", kafkaSecret[c], "KafkaSecretDataKeyUsername"),
                SecretKeyRefVar("KafkaPasswordEnvVarKey", kafkaSecret[c], "KafkaSecretDataKeyUsername") >>]

\* The fixed variables followed by the three secret-sourced ones, or the
\* error and no variables for an empty secret name.
dispatcherDeploymentEnvVars(c) ==
    IF Len(kafkaSecret[c]) <= 0
    THEN [err |-> TRUE, envVars |-> <<>>]
    ELSE [err |-> FALSE, envVars |-> fixedEnvVars(c) \o secretEnvVars(kafkaSecret[c])]

getDispatcherDeploymentName_ChannelName(c) == KafkaChannelName(c)

\* The name getDispatcherDeployment looks the deployment up by.
getDispatcherDeploymentName(c) == DispatcherDnsSafeName(c)

\* The deployment object newDispatcherDeployment fills in from the
\* environment variables: its name and namespace, its app label (also its
\* selector's and its pods' label), its replicas and its container. The
\* configured replicas are a count within the int32 range, which int32()
\* leaves as it is.
Deployment(c, envVars) ==
    LET deploymentName == DispatcherDnsSafeName(c)
        replicas       == config.Replicas
    IN  [name |-> deploymentName, namespace |-> KnativeEventingNamespace,
         appLabel |-> deploymentName, replicas |-> replicas,
         container |-> deploymentName, env |-> envVars]

newDispatcherDeployment_IgnoresEnvErr(c) ==
    [err |-> FALSE, deployment |-> Deployment(c, dispatcherDeploymentEnvVars(c).envVars)]

\* The deployment model, or (nil, err) when the environment cannot be built.
newDispatcherDeployment(c) ==
    LET env == dispatcherDeploymentEnvVars(c) IN
    IF env.err
    THEN [err |-> TRUE, deployment |-> NoObject]
    ELSE [err |-> FALSE, deployment |-> Deployment(c, env.envVars)]

\* r.kubeClientset.AppsV1().Deployments(ns).Create
createDeployment(c, createFails) ==
    ~createFails /\ depStore[c] = Absent

deploymentNotFound_NoSeed(c, st, createFails) ==
    LET new == newDispatcherDeployment(c) IN
    IF new.err
    THEN [built |-> "error", creates |-> 0, created |-> FALSE, err |-> TRUE,
          status |-> MarkDispatcherFailed(st, DispatcherDeploymentReconciliationFailed,
                                          "Failed To Generate Dispatcher Deployment")]
    ELSE LET ok == createDeployment(c, createFails) IN
         IF ~ok
         THEN [built |-> "ok", creates |-> 1, created |-> FALSE, err |-> TRUE,
               status |-> MarkDispatcherFailed(st, DispatcherDeploymentReconciliationFailed,
                                               "Failed To Create Dispatcher Deployment")]
         ELSE [built |-> "ok", creates |-> 1, created |-> TRUE, err |-> FALSE,
               status |-> st]

\* The not-found branch of reconcileDispatcherDeployment: build, create, and
\* mark the Dispatcher condition.
deploymentNotFound(c, st, createFails) ==
    LET new == newDispatcherDeployment(c) IN
    IF new.err
    THEN [built |-> "error", creates |-> 0, created |-> FALSE, err |-> TRUE,
          status |-> MarkDispatcherFailed(st, DispatcherDeploymentReconciliationFailed,
                                          "Failed To Generate Dispatcher Deployment")]
    ELSE LET ok == createDeployment(c, createFails) IN
         IF ~ok
         THEN [built |-> "ok", creates |-> 1, created |-> FALSE, err |-> TRUE,
               status |-> MarkDispatcherFailed(st, DispatcherDeploymentReconciliationFailed,
                                               "Failed To Create Dispatcher Deployment")]
         ELSE [built |-> "ok", creates |-> 1, created |-> TRUE, err |-> FALSE,
               status |-> PropagateDispatcherStatus(st, InitialHealth)]

\* The branch for a lookup failure that is not NotFound.
deploymentGetFailed(c, st) ==
    [built |-> "none", creates |-> 0, created |-> FALSE, err |-> TRUE,
     status |-> MarkDispatcherUnknown(st, DispatcherDeploymentReconciliationFailed,
                                      "Failed To Get Dispatcher Deployment")]

deploymentFound_UnavailableIsError(c, st) ==
    [built |-> "none", creates |-> 0, created |-> FALSE, err |-> depLister[c] # "Available",
     status |-> PropagateDispatcherStatus(st, depLister[c])]

deploymentFound_NoPropagate(c, st) ==
    [built |-> "none", creates |-> 0, created |-> FALSE, err |-> FALSE, status |-> st]

\* The branch for a deployment the lister holds.
deploymentFound(c, st) ==
    [built |-> "none", creates |-> 0, created |-> FALSE, err |-> FALSE,
     status |-> PropagateDispatcherStatus(st, depLister[c])]

reconcileDispatcherDeployment_CreatesOnAnyError(c, st, getFails, createFails) ==
    LET lookup == getDispatcherDeployment(c, getFails) IN
    IF lookup # "found"
    THEN [lookup |-> lookup] @@ deploymentNotFound(c, st, createFails)
    ELSE [lookup |-> lookup] @@ deploymentFound(c, st)

\* The outcome of reconcileDispatcherDeployment, with the channel status it
\* leaves (st is channel.Status on entry).
reconcileDispatcherDeployment(c, st, getFails, createFails) ==
    LET lookup == getDispatcherDeployment(c, getFails) IN
    IF lookup # "found"
    THEN IF lookup = "notfound"
         THEN [lookup |-> lookup] @@ deploymentNotFound(c, st, createFails)
         ELSE [lookup |-> lookup] @@ deploymentGetFailed(c, st)
    ELSE [lookup |-> lookup] @@ deploymentFound(c, st)

-----------------------------------------------------------------------------
\* reconcileDispatcher: the service, then the deployment, then the result.

reconcileDispatcher_ShortCircuit(c, st, svcGetFails, svcCreateFails, depGetFails, depCreateFails) ==
    LET s == reconcileDispatcherService(c, svcGetFails, svcCreateFails)
        d == IF s.err
             THEN [lookup |-> "none", built |-> "none", creates |-> 0, created |-> FALSE,
                   err |-> FALSE, status |-> st]
             ELSE reconcileDispatcherDeployment(c, st, depGetFails, depCreateFails)
    IN  [svc    |-> s,
         dep    |-> d,
         events |-> (IF s.err THEN <<DispatcherServiceReconciliationFailed>> ELSE <<>>)
                    \o (IF d.err THEN <<DispatcherDeploymentReconciliationFailed>> ELSE <<>>),
         err    |-> s.err \/ d.err]

reconcileDispatcher_OneEventPerPass(c, st, svcGetFails, svcCreateFails, depGetFails, depCreateFails) ==
    LET s == reconcileDispatcherService(c, svcGetFails, svcCreateFails)
        d == reconcileDispatcherDeployment(c, st, depGetFails, depCreateFails)
    IN  [svc    |-> s,
         dep    |-> d,
         events |-> IF s.err THEN <<DispatcherServiceReconciliationFailed>>
                    ELSE IF d.err THEN <<DispatcherDeploymentReconciliationFailed>>
                    ELSE <<>>,
         err    |-> s.err \/ d.err]

reconcileDispatcher_IgnoresServiceError(c, st, svcGetFails, svcCreateFails, depGetFails, depCreateFails) ==
    LET s == reconcileDispatcherService(c, svcGetFails, svcCreateFails)
        d == reconcileDispatcherDeployment(c, st, depGetFails, depCreateFails)
    IN  [svc    |-> s,
         dep    |-> d,
         events |-> (IF s.err THEN <<DispatcherServiceReconciliationFailed>> ELSE <<>>)
                    \o (IF d.err THEN <<DispatcherDeploymentReconciliationFailed>> ELSE <<>>),
         err    |-> d.err]

\* s and d are the two sub-reconcilers' outcomes; one warning event per
\* failure; one error when either failed.
reconcileDispatcher(c, st, svcGetFails, svcCreateFails, depGetFails, depCreateFails) ==
    LET s == reconcileDispatcherService(c, svcGetFails, svcCreateFails)
        d == reconcileDispatcherDeployment(c, st, depGetFails, depCreateFails)
    IN  [svc    |-> s,
         dep    |-> d,
         events |-> (IF s.err THEN <<DispatcherServiceReconciliationFailed>> ELSE <<>>)
                    \o (IF d.err THEN <<DispatcherDeploymentReconciliationFailed>> ELSE <<>>),
         err    |-> s.err \/ d.err]

ReconcileDispatcher(c) ==
    \E svcFault, depFault \in (IF failing THEN Faults ELSE {"none"}) :
      \E r \in {reconcileDispatcher(c, status[c], svcFault = "get", svcFault = "create",
                                     depFault = "get", depFault = "create")} :
        /\ svcStore' = [svcStore EXCEPT ![c] = @ \/ r.svc.created]
        /\ depStore' = [depStore EXCEPT ![c] = IF r.dep.created THEN InitialHealth ELSE @]
        /\ status' = [status EXCEPT ![c] = r.dep.status]
        /\ last' = [channel |-> c,
                    svc     |-> r.svc,
                    dep     |-> [lookup |-> r.dep.lookup, creates |-> r.dep.creates,
                                 created |-> r.dep.created, err |-> r.dep.err],
                    built   |-> r.dep.built,
                    events  |-> r.events,
                    err     |-> r.err,
                    serviceName    |-> getDispatcherServiceName(c),
                    service        |-> IF r.svc.creates > 0
                                       THEN newDispatcherService(c) ELSE NoObject,
                    deploymentName |-> getDispatcherDeploymentName(c),
                    deployment     |-> IF r.dep.built = "ok"
                                       THEN newDispatcherDeployment(c).deployment ELSE NoObject]
        /\ UNCHANGED <<svcLister, depLister, kafkaSecret, config, failing>>
        /\ UNCHANGED aggVars

-----------------------------------------------------------------------------
\* The environment of the engine

\* The informers deliver the store's objects to the listers.
InformerSync(c) ==
    /\ svcLister[c] # svcStore[c] \/ depLister[c] # depStore[c]
    /\ svcLister' = [svcLister EXCEPT ![c] = svcStore[c]]
    /\ depLister' = [depLister EXCEPT ![c] = depStore[c]]
    /\ last' = NoPass
    /\ UNCHANGED <<svcStore, depStore, kafkaSecret, config, failing, status>>
    /\ UNCHANGED aggVars

\* The deployment controller reports the deployment's availability.
DeploymentHealthChange(c) ==
    /\ depStore[c] # Absent
    /\ \E h \in Health \ {depStore[c]} : depStore' = [depStore EXCEPT ![c] = h]
    /\ last' = NoPass
    /\ UNCHANGED <<svcStore, svcLister, depLister, kafkaSecret, config, failing, status>>
    /\ UNCHANGED aggVars

\* The dispatcher replicas configured where the configuration does not matter.
DefaultReplicas == 1

\* The API server and the listers stop failing: from now on a get answers
\* found or not found and a create fails only for a name that exists.
StoreRecovers ==
    /\ failing
    /\ failing' = FALSE
    /\ last' = NoPass
    /\ UNCHANGED <<svcStore, svcLister, depStore, depLister, kafkaSecret, config, status>>
    /\ UNCHANGED aggVars

\* The engine before its first pass: nothing created; any secret binding; the
\* Service condition as the channel's stored status has it.
InitEngine ==
    /\ svcStore = [c \in Channels |-> FALSE]
    /\ svcLister = [c \in Channels |-> FALSE]
    /\ depStore = [c \in Channels |-> Absent]
    /\ depLister = [c \in Channels |-> Absent]
    /\ kafkaSecret \in [Channels -> SecretNames]
    /\ config = [Replicas |-> DefaultReplicas]
    /\ failing = TRUE
    /\ \E service \in {CondInit, CondTrue} :
            status = [c \in Channels |->
                         [Service |-> service, Endpoints |-> CondInit, Dispatcher |-> CondInit]]
    /\ last = NoPass

NextEngine ==
    \/ \E c \in Channels : ReconcileDispatcher(c)
    \/ \E c \in Channels : InformerSync(c)
    \/ \E c \in Channels : DeploymentHealthChange(c)

-----------------------------------------------------------------------------
\* KafkaChannel status reconciliation for a secret (package kafkasecret)

\* The secrets channels are labelled with.
Secrets == {"kafka-secret", "other-secret"}

\* How many times RetryUpdateConflicts calls the updater at most.
MaxAttempts == 3

\* How many status writes the KafkaChannel controller makes in a behaviour.
MaxPrimaryWrites == 2

\* The reasons and messages a pass is called with.
ServiceReason == "ChannelServiceFailed"

ServiceMessage == "Channel Service Failed"

DeploymentReason == "ChannelDeploymentFailed"

DeploymentMessage == "Channel Deployment Failed"

\* A nil entry of the listed channels.
Nil == "nil"

\* The Ready condition of a status: the roll-up of its leaf conditions.
Ready(st) ==
    IF \E k \in DOMAIN st : st[k].status = "False" THEN "False"
    ELSE IF \E k \in DOMAIN st : st[k].status = "Unknown" THEN "Unknown"
    ELSE "True"

StatusInit == [Service |-> CondInit, Endpoints |-> CondInit, Dispatcher |-> CondInit]

StatusReady == [Service |-> CondTrue, Endpoints |-> CondTrue, Dispatcher |-> CondInit]

\* Status.MarkServiceTrue / Status.MarkServiceFailed(reason, message)
MarkService(st, valid, reason, message) ==
    [st EXCEPT !.Service = IF valid THEN CondTrue ELSE MarkFailed(reason, message)]

\* Status.MarkEndpointsTrue / Status.MarkEndpointsFailed(reason, message)
MarkEndpoints(st, valid, reason, message) ==
    [st EXCEPT !.Endpoints = IF valid THEN CondTrue ELSE MarkFailed(reason, message)]

updatedStatus_MarksDispatcher(st, serviceValid, deploymentValid) ==
    [MarkService(st, serviceValid, ServiceReason, ServiceMessage)
        EXCEPT !.Dispatcher = IF deploymentValid THEN CondTrue
                              ELSE MarkFailed(DeploymentReason, DeploymentMessage)]

updatedStatus_SwapsReasons(st, serviceValid, deploymentValid) ==
    MarkEndpoints(MarkService(st, serviceValid, DeploymentReason, DeploymentMessage),
                  deploymentValid, ServiceReason, ServiceMessage)

\* The status of updatedChannel: the copy of original with the service and
\* the deployment state marked.
updatedStatus(st, serviceValid, deploymentValid) ==
    MarkEndpoints(MarkService(st, serviceValid, ServiceReason, ServiceMessage),
                  deploymentValid, DeploymentReason, DeploymentMessage)

Matching_AllChannels(secret) == Channels

\* kafkachannelLister.List(selector): the lister's channels whose label is the
\* secret's name.
Matching(secret) == {c \in Channels : secretLabel[c] = secret}

\* The sequences that hold each element of S once.
Orders(S) ==
    {q \in [1..Cardinality(S) -> S] : \A i, j \in 1..Cardinality(S) : i # j => q[i] # q[j]}

Entry(c) == [channel |-> c, rv |-> chanLister[c].rv, status |-> chanLister[c].status]

NilEntry == [channel |-> Nil, rv |-> 0, status |-> StatusInit]

NoCalls == [c \in Channels |-> 0]

\* No call of the updater made yet.
NoAttempt ==
    [channel |-> Nil, attempts |-> 0, ret |-> "none", calls |-> 0,
     original |-> [rv |-> 0, status |-> StatusInit],
     object |-> [rv |-> 0, status |-> StatusInit]]

AggIdle ==
    [pc |-> "idle", secret |-> "", serviceValid |-> FALSE, deploymentValid |-> FALSE,
     list |-> <<>>, idx |-> 0, attempts |-> 0, statusUpdateErrors |-> FALSE,
     invoked |-> NoCalls, updates |-> NoCalls, written |-> [c \in Channels |-> FALSE],
     outcome |-> [c \in Channels |-> "none"], result |-> "none",
     att |-> NoAttempt]

\* reconcileKafkaChannelStatus going on to the loop after a failed List.
ListChannels_ContinuesAfterListError(secret, serviceValid, deploymentValid) ==
    /\ agg.pc = "idle"
    /\ \E listFails \in BOOLEAN, withNil \in BOOLEAN, order \in Orders(Matching(secret)) :
        LET entries == [i \in DOMAIN order |-> Entry(order[i])] IN
        agg' = [agg EXCEPT !.pc = "loop", !.secret = secret,
                           !.result = IF listFails THEN "listerror" ELSE @,
                           !.serviceValid = serviceValid, !.deploymentValid = deploymentValid,
                           !.list = IF withNil THEN <<NilEntry>> \o entries ELSE entries,
                           !.idx = 1]
    /\ UNCHANGED <<chanStore, chanLister, secretLabel, primaryWrites>>
    /\ UNCHANGED engineVars

\* reconcileKafkaChannelStatus up to the loop: list the channels of the secret.
\* A failed List returns its error.
ListChannels(secret, serviceValid, deploymentValid) ==
    /\ agg.pc = "idle"
    /\ \E listFails \in BOOLEAN, withNil \in BOOLEAN, order \in Orders(Matching(secret)) :
        LET entries == [i \in DOMAIN order |-> Entry(order[i])] IN
        agg' = IF listFails
               THEN [agg EXCEPT !.pc = "done", !.secret = secret, !.result = "listerror",
                                !.serviceValid = serviceValid, !.deploymentValid = deploymentValid]
               ELSE [agg EXCEPT !.pc = "loop", !.secret = secret,
                                !.serviceValid = serviceValid, !.deploymentValid = deploymentValid,
                                !.list = IF withNil THEN <<NilEntry>> \o entries ELSE entries,
                                !.idx = 1]
    /\ UNCHANGED <<chanStore, chanLister, secretLabel, primaryWrites>>
    /\ UNCHANGED engineVars

\* The loop's step for a nil entry: skipped.
SkipNil ==
    /\ agg.pc = "loop"
    /\ agg.idx <= Len(agg.list)
    /\ agg.list[agg.idx].channel = Nil
    /\ agg' = [agg EXCEPT !.idx = @ + 1]
    /\ UNCHANGED <<chanStore, chanLister, secretLabel, primaryWrites>>
    /\ UNCHANGED engineVars

updater_AlwaysWrites(e, attempts, serviceValid, deploymentValid, fault) ==
    LET c        == e.channel
        original == IF attempts > 0 THEN Entry(c) ELSE e
        updated  == [original EXCEPT !.status = updatedStatus(@, serviceValid, deploymentValid)]
    IN  IF attempts > 0 /\ fault = "get"
        THEN [ret |-> "error", calls |-> 0, original |-> e, object |-> e]
        ELSE IF fault = "update"
             THEN [ret |-> "error", calls |-> 1, original |-> original, object |-> updated]
             ELSE IF updated.rv # chanStore[c].rv
                  THEN [ret |-> "conflict", calls |-> 1, original |-> original, object |-> updated]
                  ELSE [ret |-> "updated", calls |-> 1, original |-> original, object |-> updated]

updater_StaleRecompute(e, attempts, serviceValid, deploymentValid, fault) ==
    LET c        == e.channel
        original == IF attempts > 0 THEN Entry(c) ELSE e
        updated  == [original EXCEPT !.status = updatedStatus(e.status, serviceValid, deploymentValid)]
    IN  IF attempts > 0 /\ fault = "get"
        THEN [ret |-> "error", calls |-> 0, original |-> e, object |-> e]
        ELSE IF original.status # updated.status
             THEN IF fault = "update"
                  THEN [ret |-> "error", calls |-> 1, original |-> original, object |-> updated]
                  ELSE IF updated.rv # chanStore[c].rv
                       THEN [ret |-> "conflict", calls |-> 1, original |-> original, object |-> updated]
                       ELSE [ret |-> "updated", calls |-> 1, original |-> original, object |-> updated]
             ELSE [ret |-> "verified", calls |-> 0, original |-> original, object |-> updated]

\* One call of the updater of updateKafkaChannelStatus for the channel of
\* entry e, attempts calls having been made before: what it returns, how many
\* UpdateStatus calls it makes, the channel it starts from and the object it
\* computes. After the first attempt the channel is reloaded from the lister.
\* UpdateStatus is refused with a conflict when the submitted resourceVersion
\* is not the stored one.
updater(e, attempts, serviceValid, deploymentValid, fault) ==
    LET c        == e.channel
        original == IF attempts > 0 THEN Entry(c) ELSE e
        updated  == [original EXCEPT !.status = updatedStatus(@, serviceValid, deploymentValid)]
    IN  IF attempts > 0 /\ fault = "get"
        THEN [ret |-> "error", calls |-> 0, original |-> e, object |-> e]
        ELSE IF original.status # updated.status
             THEN IF fault = "update"
                  THEN [ret |-> "error", calls |-> 1, original |-> original, object |-> updated]
                  ELSE IF updated.rv # chanStore[c].rv
                       THEN [ret |-> "conflict", calls |-> 1, original |-> original, object |-> updated]
                       ELSE [ret |-> "updated", calls |-> 1, original |-> original, object |-> updated]
             ELSE [ret |-> "verified", calls |-> 0, original |-> original, object |-> updated]

retries_Unbounded(ret, attempts) ==
    ret = "conflict"

retries_OnAnyError(ret, attempts) ==
    ret \in {"conflict", "error"} /\ attempts + 1 < MaxAttempts

\* RetryUpdateConflicts: whether the updater is called again after returning
\* ret on its attempts-th call (counted from 0).
retries(ret, attempts) ==
    ret = "conflict" /\ attempts + 1 < MaxAttempts

afterChannel_StopsOnError(a, c, failed) ==
    [a EXCEPT !.idx = IF failed THEN Len(a.list) + 1 ELSE @ + 1,
              !.attempts = 0,
              !.outcome[c] = IF failed THEN "failed" ELSE "ok",
              !.statusUpdateErrors = @ \/ failed]

afterChannel_KeepsLastError(a, c, failed) ==
    [a EXCEPT !.idx = @ + 1,
              !.attempts = 0,
              !.outcome[c] = IF failed THEN "failed" ELSE "ok",
              !.statusUpdateErrors = failed]

\* The loop body once updateKafkaChannelStatus has returned for channel c:
\* note a failure and go on with the next entry.
afterChannel(a, c, failed) ==
    [a EXCEPT !.idx = @ + 1,
              !.attempts = 0,
              !.outcome[c] = IF failed THEN "failed" ELSE "ok",
              !.statusUpdateErrors = @ \/ failed]

\* One call of the updater for the current entry, and what the retry loop and
\* the channel loop do with its result.
UpdateAttempt ==
    /\ agg.pc = "loop"
    /\ agg.idx <= Len(agg.list)
    /\ agg.list[agg.idx].channel # Nil
    /\ \E fault \in {"none", "get", "update"} :
        LET e == agg.list[agg.idx]
            c == e.channel
            r == updater(e, agg.attempts, agg.serviceValid, agg.deploymentValid, fault)
            a == [agg EXCEPT !.invoked[c] = IF agg.attempts = 0 THEN @ + 1 ELSE @,
                             !.updates[c] = @ + r.calls,
                             !.written[c] = @ \/ r.ret = "updated",
                             !.att = [channel |-> c, attempts |-> agg.attempts,
                                      ret |-> r.ret, calls |-> r.calls,
                                      original |-> [rv |-> r.original.rv,
                                                    status |-> r.original.status],
                                      object |-> [rv |-> r.object.rv,
                                                  status |-> r.object.status]]]
        IN  /\ chanStore' = IF r.ret = "updated"
                            THEN [chanStore EXCEPT ![c] = [rv |-> @.rv + 1, status |-> r.object.status]]
                            ELSE chanStore
            /\ agg' = IF retries(r.ret, agg.attempts)
                      THEN [a EXCEPT !.attempts = @ + 1]
                      ELSE afterChannel(a, c, r.ret \in {"error", "conflict"})
    /\ UNCHANGED <<chanLister, secretLabel, primaryWrites>>
    /\ UNCHANGED engineVars

\* The end of reconcileKafkaChannelStatus: one error when any update failed.
ReturnResult ==
    /\ agg.pc = "loop"
    /\ agg.idx > Len(agg.list)
    /\ agg' = [agg EXCEPT !.pc = "done",
                          !.result = IF agg.statusUpdateErrors THEN "error" ELSE "ok"]
    /\ UNCHANGED <<chanStore, chanLister, secretLabel, primaryWrites>>
    /\ UNCHANGED engineVars

\* The KafkaChannel controller writes the channel's status (its Dispatcher
\* condition), from the current object.
PrimaryControllerWrite(c) ==
    /\ primaryWrites < MaxPrimaryWrites
    /\ primaryWrites' = primaryWrites + 1
    /\ chanStore' = [chanStore EXCEPT ![c] =
            [rv |-> @.rv + 1,
             status |-> [@.status EXCEPT !.Dispatcher = IF @ = CondTrue THEN CondInit ELSE CondTrue]]]
    /\ UNCHANGED <<chanLister, secretLabel, agg>>
    /\ UNCHANGED engineVars

\* The informer delivers the stored channel to the lister.
ChannelInformerSync(c) ==
    /\ chanLister[c] # chanStore[c]
    /\ chanLister' = [chanLister EXCEPT ![c] = chanStore[c]]
    /\ UNCHANGED <<chanStore, secretLabel, agg, primaryWrites>>
    /\ UNCHANGED engineVars

\* No pass of the aggregator: its state while the engine is looked at.
InitAggIdle ==
    /\ chanStore = [c \in Channels |-> [rv |-> 0, status |-> StatusInit]]
    /\ chanLister = chanStore
    /\ secretLabel = [c \in Channels |-> "kafka-secret"]
    /\ agg = AggIdle
    /\ primaryWrites = 0

\* A channel an earlier pass has marked as failed, the write not delivered to
\* the lister yet.
MarkedFailed == [rv |-> 1, status |-> updatedStatus(StatusReady, FALSE, FALSE)]

\* The channels as a pass may find them: each with a status the lister holds,
\* the first labelled with the secret, the others with any. The lister's copy
\* is the stored channel, or, for the first channel while the other is new
\* and labelled with another secret, the one before an earlier pass's write.
InitAgg ==
    /\ chanLister \in [Channels -> {[rv |-> 0, status |-> s] : s \in {StatusInit, StatusReady}}]
    /\ secretLabel \in {l \in [Channels -> Secrets] : l["ns1/chan-a"] = "kafka-secret"}
    /\ \E undelivered \in BOOLEAN :
          /\ undelivered =>
                /\ chanLister["ns1/chan-a"].status = StatusReady
                /\ chanLister["ns2/chan-a"].status = StatusInit
                /\ secretLabel["ns2/chan-a"] = "other-secret"
          /\ chanStore = [c \in Channels |->
                            IF undelivered /\ c = "ns1/chan-a"
                            THEN MarkedFailed ELSE chanLister[c]]
    /\ agg = AggIdle
    /\ primaryWrites = 0

InitEngineIdle ==
    /\ svcStore = [c \in Channels |-> FALSE]
    /\ svcLister = [c \in Channels |-> FALSE]
    /\ depStore = [c \in Channels |-> Absent]
    /\ depLister = [c \in Channels |-> Absent]
    /\ kafkaSecret = [c \in Channels |-> "kafka-secret"]
    /\ config = [Replicas |-> DefaultReplicas]
    /\ failing = TRUE
    /\ status = [c \in Channels |-> StatusInit]
    /\ last = NoPass

NextAgg ==
    \/ \E secret \in Secrets, serviceValid, deploymentValid \in BOOLEAN :
           ListChannels(secret, serviceValid, deploymentValid)
    \/ SkipNil
    \/ UpdateAttempt
    \/ ReturnResult
    \/ \E c \in Channels : PrimaryControllerWrite(c)
    \/ \E c \in Channels : ChannelInformerSync(c)

Init == InitEngine /\ InitAggIdle

InitAggregator == InitEngineIdle /\ InitAgg

Next == NextEngine

\* The builders called on their own
-----------------------------------------------------------------------------
\* The most replicas a configuration asks for.
MaxReplicas == 12

ConfiguredReplicas == 1..MaxReplicas

\* newDispatcherDeployment(channel) is called for channel c.
NewDispatcherDeployment(c) ==
    /\ \E r \in {newDispatcherDeployment(c)} :
          last' = [NoPass EXCEPT !.channel = c,
                                 !.built = IF r.err THEN "error" ELSE "ok",
                                 !.deployment = r.deployment]
    /\ UNCHANGED <<svcStore, svcLister, depStore, depLister, kafkaSecret, config, failing, status>>
    /\ UNCHANGED aggVars

\* newDispatcherService(channel) is called for channel c.
NewDispatcherService(c) ==
    /\ last' = [NoPass EXCEPT !.channel = c, !.service = newDispatcherService(c)]
    /\ UNCHANGED <<svcStore, svcLister, depStore, depLister, kafkaSecret, config, failing, status>>
    /\ UNCHANGED aggVars

\* Any secret binding and any configured replicas; nothing reconciled.
InitBuilder ==
    /\ svcStore = [c \in Channels |-> FALSE]
    /\ svcLister = [c \in Channels |-> FALSE]
    /\ depStore = [c \in Channels |-> Absent]
    /\ depLister = [c \in Channels |-> Absent]
    /\ kafkaSecret \in [Channels -> SecretNames]
    /\ config \in [Replicas : ConfiguredReplicas]
    /\ failing = TRUE
    /\ status = [c \in Channels |-> StatusInit]
    /\ last = NoPass
    /\ InitAggIdle

NextBuilder ==
    \/ \E c \in Channels : NewDispatcherDeployment(c)
    \/ \E c \in Channels : NewDispatcherService(c)

\* The desired-state builders, for any inputs.
SpecBuilder == InitBuilder /\ [][NextBuilder]_vars

\* The reconciliation engine and its environment.
Spec == Init /\ [][Next]_vars

\* Nothing created yet; the first channel's topic has a secret, the other's
\* has none.
InitRetriggered ==
    /\ svcStore = [c \in Channels |-> FALSE]
    /\ svcLister = [c \in Channels |-> FALSE]
    /\ depStore = [c \in Channels |-> Absent]
    /\ depLister = [c \in Channels |-> Absent]
    /\ kafkaSecret = [c \in Channels |-> IF c = "ns1/chan-a" THEN "kafka-secret" ELSE ""]
    /\ config = [Replicas |-> DefaultReplicas]
    /\ failing = TRUE
    /\ status = [c \in Channels |-> StatusInit]
    /\ last = NoPass
    /\ InitAggIdle

NextRetriggered ==
    \/ NextEngine
    \/ StoreRecovers

\* Every channel's reconciliation is triggered again and again, the informers
\* deliver what is stored, and the calls of the store stop failing.
Retriggered ==
    /\ WF_vars(StoreRecovers)
    /\ \A c \in Channels : WF_vars(ReconcileDispatcher(c)) /\ WF_vars(InformerSync(c))

\* The engine re-triggered for ever on a store that recovers.
SpecRetriggered == InitRetriggered /\ [][NextRetriggered]_vars /\ Retriggered

\* The status aggregator and its environment.
SpecAgg == InitAggregator /\ [][NextAgg]_vars

-----------------------------------------------------------------------------
\* The pass that has just returned was for channel c.
Passed(c) == last.channel = c

\* C1: in every pass of reconcileDispatcher both the service and the
\* deployment reconciliation are attempted, whatever the other's outcome, and
\* the pass returns an error exactly when at least one of the two failed.
C1_BothAttemptedAggregateError ==
    \A c \in Channels : Passed(c) =>
        /\ last.svc.lookup # "none"
        /\ last.dep.lookup # "none"
        /\ last.err <=> (last.svc.err \/ last.dep.err)

\* A pass whose service reconciliation failed and whose deployment was still
\* created.
C1_Witness ==
    \E c \in Channels : Passed(c) /\ last.svc.err /\ last.dep.created /\ last.err

\* C2 as stated: a pass that directly follows a pass for the same channel
\* which returned no error (it found or created both objects) issues no
\* create call.
C2_SecondPassNoCreate ==
    [][\A c \in Channels :
        (Passed(c) /\ ~last.err /\ last'.channel = c)
            => (last'.svc.creates = 0 /\ last'.dep.creates = 0)]_vars

\* C2, amended: a pass issues no create call for an object its lister holds
\* (so none at all once a pass has found both, or once the listers reflect the
\* creates), and a create succeeds only for an object the store does not
\* hold yet: each sub-resource is created at most once.
C2_NoCreateOnceListed ==
    [][\A c \in Channels : last'.channel = c =>
        /\ svcLister[c] => last'.svc.creates = 0
        /\ depLister[c] # Absent => last'.dep.creates = 0
        /\ (Passed(c) /\ last.svc.lookup = "found" /\ last.dep.lookup = "found")
               => (last'.svc.creates = 0 /\ last'.dep.creates = 0)
        /\ last'.svc.created => (~svcStore[c] /\ svcStore'[c])
        /\ last'.dep.created => (depStore[c] = Absent /\ depStore'[c] # Absent)]_vars

\* A pass that found both objects and issued no create call.
C2_Witness ==
    \E c \in Channels :
        /\ Passed(c) /\ ~last.err
        /\ last.svc.lookup = "found" /\ last.dep.lookup = "found"
        /\ last.svc.creates = 0 /\ last.dep.creates = 0
        /\ svcStore[c] /\ depStore[c] # Absent

\* C3 as stated: when a lookup fails with an error that is not NotFound, no
\* create call is issued for that sub-resource, the corresponding channel
\* condition (Service, Dispatcher) is Unknown, and the error is returned.
C3_GetErrorMarksUnknown ==
    \A c \in Channels : Passed(c) =>
        /\ last.svc.lookup = "error" =>
               (last.svc.creates = 0 /\ status[c].Service.status = "Unknown" /\ last.svc.err /\ last.err)
        /\ last.dep.lookup = "error" =>
               (last.dep.creates = 0 /\ status[c].Dispatcher.status = "Unknown" /\ last.dep.err /\ last.err)

\* C3, amended: on such a lookup failure no create call is issued and the
\* error is returned; the deployment's failure marks the Dispatcher condition
\* Unknown, the service's failure changes no condition.
C3_GetErrorNoCreate ==
    [][\A c \in Channels : last'.channel = c =>
        /\ last'.svc.lookup = "error" =>
               /\ last'.svc.creates = 0 /\ ~last'.svc.created
               /\ svcStore'[c] = svcStore[c]
               /\ last'.svc.err /\ last'.err
        /\ last'.dep.lookup = "error" =>
               /\ last'.dep.creates = 0 /\ ~last'.dep.created
               /\ depStore'[c] = depStore[c]
               /\ status'[c].Dispatcher.status = "Unknown"
               /\ status'[c].Dispatcher.reason = DispatcherDeploymentReconciliationFailed
               /\ last'.dep.err /\ last'.err
        /\ status'[c].Service = status[c].Service]_vars

\* A pass whose two lookups both failed, the Service condition being True.
C3_Witness ==
    \E c \in Channels :
        /\ Passed(c) /\ last.svc.lookup = "error" /\ last.dep.lookup = "error"
        /\ status[c].Service.status = "True" /\ status[c].Dispatcher.status = "Unknown"

\* C4: when the deployment is not found and no secret is bound to the
\* channel's topic, the builder returns an error and no deployment object,
\* the Dispatcher condition is marked Failed and no deployment create call is
\* issued in that pass.
C4_UnboundSecretNoDeployment ==
    \A c \in Channels : (Passed(c) /\ last.dep.lookup = "notfound" /\ kafkaSecret[c] = "") =>
        /\ dispatcherDeploymentEnvVars(c) = [err |-> TRUE, envVars |-> <<>>]
        /\ newDispatcherDeployment(c) = [err |-> TRUE, deployment |-> <<>>]
        /\ last.built = "error"
        /\ last.dep.creates = 0 /\ ~last.dep.created /\ depStore[c] = Absent
        /\ status[c].Dispatcher.status = "False"
        /\ status[c].Dispatcher.reason = DispatcherDeploymentReconciliationFailed
        /\ last.dep.err /\ last.err

\* A pass for a channel without a secret whose deployment was not found.
C4_Witness ==
    \E c \in Channels :
        /\ Passed(c) /\ last.dep.lookup = "notfound" /\ kafkaSecret[c] = ""
        /\ last.built = "error" /\ status[c].Dispatcher.status = "False"

\* C5 as stated: a pass for a channel without a bound secret that finds
\* neither the service nor the deployment returns an error and issues neither
\* a service create nor a deployment create.
C5_UnboundSecretNoWrites ==
    \A c \in Channels :
        (Passed(c) /\ kafkaSecret[c] = "" /\ last.svc.lookup = "notfound" /\ last.dep.lookup = "notfound") =>
            /\ last.err /\ last.built = "error"
            /\ last.svc.creates = 0
            /\ last.dep.creates = 0

\* C5, amended: such a pass returns an error and issues no deployment create;
\* the service create, which does not need the secret, is issued.
C5_UnboundSecretNoDeploymentWrite ==
    \A c \in Channels :
        (Passed(c) /\ kafkaSecret[c] = "" /\ last.svc.lookup = "notfound" /\ last.dep.lookup = "notfound") =>
            /\ last.err /\ last.built = "error" /\ last.dep.err
            /\ last.dep.creates = 0 /\ ~last.dep.created /\ depStore[c] = Absent
            /\ last.svc.creates = 1
            /\ last.events # <<>>

\* Such a pass, which created the service.
C5_Witness ==
    \E c \in Channels :
        /\ Passed(c) /\ kafkaSecret[c] = ""
        /\ last.svc.lookup = "notfound" /\ last.dep.lookup = "notfound"
        /\ last.svc.created /\ svcStore[c] /\ depStore[c] = Absent /\ last.err

\* C6 as stated: when a sub-resource is not found and its create call fails,
\* the pass issues one create call for it and no more, records a warning
\* event, leaves the corresponding condition Failed or Unknown (never True)
\* and returns the error.
C6_CreateFailureMarksCondition ==
    \A c \in Channels : Passed(c) =>
        /\ (last.svc.creates > 0 /\ ~last.svc.created) =>
               /\ last.svc.creates = 1
               /\ \E i \in DOMAIN last.events : last.events[i] = DispatcherServiceReconciliationFailed
               /\ status[c].Service.status # "True"
               /\ last.svc.err /\ last.err
        /\ (last.dep.creates > 0 /\ ~last.dep.created) =>
               /\ last.dep.creates = 1
               /\ \E i \in DOMAIN last.events : last.events[i] = DispatcherDeploymentReconciliationFailed
               /\ status[c].Dispatcher.status # "True"
               /\ last.dep.err /\ last.err

\* C6, amended: on a failed create the pass issues that one create call and
\* no more, records the warning event and returns the error; the deployment's
\* failure leaves the Dispatcher condition Failed, the service's failure
\* changes no condition (the Service condition stays as it was, True
\* included).
C6_CreateFailureNoRetry ==
    [][\A c \in Channels : last'.channel = c =>
        /\ last'.svc.creates <= 1 /\ last'.dep.creates <= 1
        /\ (last'.svc.creates > 0 /\ ~last'.svc.created) =>
               /\ \E i \in DOMAIN last'.events : last'.events[i] = DispatcherServiceReconciliationFailed
               /\ svcStore'[c] = svcStore[c]
               /\ last'.svc.err /\ last'.err
        /\ (last'.dep.creates > 0 /\ ~last'.dep.created) =>
               /\ \E i \in DOMAIN last'.events : last'.events[i] = DispatcherDeploymentReconciliationFailed
               /\ depStore'[c] = depStore[c]
               /\ status'[c].Dispatcher.status = "False"
               /\ status'[c].Dispatcher.reason = DispatcherDeploymentReconciliationFailed
               /\ last'.dep.err /\ last'.err
        /\ status'[c].Service = status[c].Service]_vars

\* A pass whose two create calls both failed, the Service condition being True.
C6_Witness ==
    \E c \in Channels :
        /\ Passed(c)
        /\ last.svc.creates = 1 /\ ~last.svc.created
        /\ last.dep.creates = 1 /\ ~last.dep.created
        /\ status[c].Service.status = "True" /\ status[c].Dispatcher.status = "False"
        /\ Len(last.events) = 2

\* C7 as stated: when the service lookup succeeds the Service condition is
\* True, and when the deployment lookup succeeds the Dispatcher condition
\* carries the deployment's health.
C7_FoundSetsConditions ==
    \A c \in Channels : Passed(c) =>
        /\ last.svc.lookup = "found" => status[c].Service.status = "True"
        /\ last.dep.lookup = "found" =>
               status[c].Dispatcher.status =
                   (IF depLister[c] = "Available" THEN "True" ELSE "False")

\* C7, amended: when the deployment lookup succeeds, the health of the
\* deployment the lister returned is propagated into the Dispatcher
\* condition; when the service lookup succeeds the engine reports success and
\* changes no condition.
C7_FoundPropagatesDeployment ==
    [][\A c \in Channels : last'.channel = c =>
        /\ last'.svc.lookup = "found" => (~last'.svc.err /\ last'.svc.creates = 0)
        /\ last'.dep.lookup = "found" =>
               /\ ~last'.dep.err /\ last'.dep.creates = 0
               /\ depLister[c] = "Available" => status'[c].Dispatcher = CondTrue
               /\ depLister[c] = "Unavailable" => status'[c].Dispatcher.status = "False"
        /\ status'[c].Service = status[c].Service]_vars

\* A pass that found the service, its Service condition not True, and found
\* an unavailable deployment.
C7_Witness ==
    \E c \in Channels :
        /\ Passed(c) /\ last.svc.lookup = "found" /\ last.dep.lookup = "found"
        /\ status[c].Service.status = "Unknown"
        /\ depLister[c] = "Unavailable" /\ status[c].Dispatcher.status = "False"

-----------------------------------------------------------------------------
\* The pass of the aggregator has returned after listing the channels.
Returned == agg.pc = "done" /\ agg.result # "listerror"

\* The status a successful update of the pass leaves in the two conditions
\* the pass marks.
Marked(st) ==
    /\ st.Service = (IF agg.serviceValid THEN CondTrue ELSE MarkFailed(ServiceReason, ServiceMessage))
    /\ st.Endpoints = (IF agg.deploymentValid THEN CondTrue ELSE MarkFailed(DeploymentReason, DeploymentMessage))

\* C9: one pass of reconcileKafkaChannelStatus calls updateKafkaChannelStatus
\* exactly once for each channel labelled with the secret and for no other,
\* whatever the outcome for the channels before it: a channel whose update
\* fails, a conflict on every attempt included, does not end the loop.
C9_FanOutComplete ==
    /\ \A c \in Channels : agg.invoked[c] <= 1
    /\ Returned =>
           \A c \in Channels :
               /\ agg.invoked[c] = (IF c \in Matching(agg.secret) THEN 1 ELSE 0)
               /\ c \in Matching(agg.secret) <=> agg.outcome[c] \in {"ok", "failed"}

\* A pass over two channels: the first met a conflict on every attempt and
\* failed, the second was then updated.
C9_Witness ==
    /\ Returned
    /\ \E i, j \in DOMAIN agg.list :
        /\ i < j
        /\ agg.list[i].channel # Nil /\ agg.list[j].channel # Nil
        /\ agg.outcome[agg.list[i].channel] = "failed"
        /\ agg.updates[agg.list[i].channel] = MaxAttempts
        /\ agg.outcome[agg.list[j].channel] = "ok"
        /\ agg.written[agg.list[j].channel]

\* C10 as stated: the pass returns an error exactly when one or more, but not
\* all, of the per-channel updates failed.
C10_ErrorIffSomeButNotAllFailed ==
    Returned =>
        (agg.result = "error" <=>
            /\ \E c \in Matching(agg.secret) : agg.outcome[c] = "failed"
            /\ ~ \A c \in Matching(agg.secret) : agg.outcome[c] = "failed")

\* C10, amended: the pass returns an error exactly when one or more of the
\* per-channel updates failed, all of them included, and only after every
\* listed channel has been attempted; a status the pass has written stays in
\* the store: no later step of the pass changes that channel again.
C10_ErrorIffAnyFailed ==
    /\ [](Returned =>
            /\ agg.result = "error" <=> \E c \in Matching(agg.secret) : agg.outcome[c] = "failed"
            /\ agg.result \in {"ok", "error"}
            /\ \A c \in Matching(agg.secret) : agg.invoked[c] = 1)
    /\ [](\A c \in Channels : agg.written[c] => Marked(chanStore[c].status))
    /\ [][\A c \in Channels :
            (agg.written[c] /\ agg' # agg) => chanStore'[c] = chanStore[c]]_vars

\* A pass that returned an error: one channel failed and the other channel's
\* written status is in the store.
C10_Witness ==
    /\ Returned /\ agg.result = "error"
    /\ \E c, d \in Matching(agg.secret) :
        /\ agg.outcome[c] = "failed" /\ ~agg.written[c]
        /\ agg.outcome[d] = "ok" /\ agg.written[d]
        /\ Marked(chanStore[d].status) /\ chanStore[d].rv > 0

-----------------------------------------------------------------------------
\* The step is a call of the updater.
Attempted == agg.pc = "loop" /\ agg'.att # agg.att

\* The step is a call of the updater after the first of a channel.
Retried == Attempted /\ agg.attempts > 0

\* The last call of the updater failed to reload the channel.
ReloadFailed == agg.att.ret = "error" /\ agg.att.calls = 0

C12_RetrySubmitsReloadedCopy ==
    [][(Retried /\ agg'.att.calls > 0) =>
            /\ agg'.att.original = chanStore[agg'.att.channel]
            /\ agg'.att.object # agg.att.object]_vars

\* C13: no lost update. A status the aggregator writes is computed from the
\* channel as it is stored when it is written: the write changes the stored
\* status by the service and deployment marking only, and leaves what the
\* KafkaChannel controller has written in the other conditions.
C13_NoLostUpdate ==
    [][\A c \in Channels :
          (agg' # agg /\ chanStore'[c] # chanStore[c]) =>
              /\ agg'.att.original = chanStore[c]
              /\ chanStore'[c].status =
                    updatedStatus(chanStore[c].status, agg.serviceValid, agg.deploymentValid)
              /\ chanStore'[c].status.Dispatcher = chanStore[c].status.Dispatcher
              /\ chanStore'[c].rv = chanStore[c].rv + 1]_vars

C13_Witness ==
    /\ agg.att.ret = "updated"
    /\ agg.att.attempts > 0
    /\ agg.att.original.status.Dispatcher = CondTrue
    /\ chanStore[agg.att.channel].status.Dispatcher = CondTrue
    /\ primaryWrites > 0

\* What is left of a pass: grows with every step of the loop.
Progress(a) == a.idx * MaxAttempts + a.attempts

\* C14: the retry loop terminates. A channel gets at most MaxAttempts
\* UpdateStatus calls in a pass, also when each is answered with a conflict;
\* every step of the loop makes progress towards the end of the list, which
\* bounds it, and the loop is never stuck: the pass terminates.
C14_RetryBounded ==
    /\ [](/\ \A c \in Channels : agg.updates[c] <= MaxAttempts
          /\ agg.attempts < MaxAttempts
          /\ agg.pc = "loop" =>
                /\ agg.idx <= Len(agg.list) + 1
                /\ Len(agg.list) <= Cardinality(Channels) + 1
                /\ ENABLED (SkipNil \/ UpdateAttempt \/ ReturnResult))
    /\ [][(agg.pc = "loop" /\ agg' # agg) =>
                \/ agg'.pc = "done"
                \/ agg'.pc = "loop" /\ Progress(agg') > Progress(agg)]_vars

C14_Witness ==
    /\ agg.pc = "done"
    /\ \E c \in Channels :
        /\ agg.updates[c] = MaxAttempts
        /\ agg.outcome[c] = "failed"
        /\ agg.att.ret = "conflict"

\* C20: only a conflict is retried. The updater is called again for a channel
\* only after a conflict; when UpdateStatus fails otherwise, or the reload of
\* an attempt after the first fails (before any UpdateStatus call of that
\* attempt), the channel's update ends as failed at once, and no UpdateStatus
\* call is made for a channel once its update has ended.
C20_OnlyConflictRetried ==
    /\ [][Attempted =>
            LET c == agg'.att.channel IN
            /\ (agg'.attempts > 0) => (agg'.att.ret = "conflict")
            /\ (agg'.att.ret = "error") =>
                    /\ agg'.attempts = 0
                    /\ agg'.idx = agg.idx + 1
                    /\ agg'.outcome[c] = "failed"
                    /\ agg'.statusUpdateErrors
                    /\ agg'.updates[c] = agg.updates[c] + agg'.att.calls
                    /\ (agg'.att.calls = 0) => (agg.attempts > 0)]_vars
    /\ [][\A c \in Channels :
            (agg.outcome[c] # "none") =>
                /\ agg'.updates[c] = agg.updates[c]
                /\ agg'.outcome[c] = agg.outcome[c]]_vars

C20_Witness ==
    /\ agg.pc = "done"
    /\ ReloadFailed
    /\ agg.att.attempts = 1
    /\ agg.updates[agg.att.channel] = 1
    /\ agg.outcome[agg.att.channel] = "failed"

\* Status to differs from status from in the conditions of leaves at most.
SameExcept(from, to, leaves) ==
    /\ DOMAIN to = DOMAIN from
    /\ \A k \in DOMAIN from \ leaves : to[k] = from[k]

\* C15 as stated: a write of a channel's status, by the aggregator or by the
\* KafkaChannel controller, changes the Service and the Dispatcher condition
\* only.
C15_OnlyServiceAndDispatcher ==
    [][\A c \in Channels :
          (chanStore'[c] # chanStore[c]) =>
              SameExcept(chanStore[c].status, chanStore'[c].status, {"Service", "Dispatcher"})]_vars

\* C15: the aggregator sets the Service and the Endpoints condition only, the
\* engine (in each branch of reconcileDispatcherDeployment, for the
\* KafkaChannel controller) sets the Dispatcher condition only; Ready is not
\* written by either but rolled up, and is True exactly when every leaf
\* condition is True.
C15_LeavesOfEachWriter ==
    /\ [][\A c \in Channels :
            (chanStore'[c] # chanStore[c]) =>
                IF agg' # agg
                THEN /\ SameExcept(chanStore[c].status, chanStore'[c].status,
                                   {"Service", "Endpoints"})
                     /\ chanStore'[c].status.Service.status = 
                            (IF agg.serviceValid THEN "True" ELSE "False")
                     /\ chanStore'[c].status.Endpoints.status =
                            (IF agg.deploymentValid THEN "True" ELSE "False")
                ELSE SameExcept(chanStore[c].status, chanStore'[c].status, {"Dispatcher"})]_vars
    /\ [](\A c \in Channels : \A st \in {chanStore[c].status, chanLister[c].status} :
            /\ \A createFails \in BOOLEAN :
                    SameExcept(st, deploymentNotFound(c, st, createFails).status, {"Dispatcher"})
            /\ SameExcept(st, deploymentGetFailed(c, st).status, {"Dispatcher"})
            /\ SameExcept(st, deploymentFound(c, st).status, {"Dispatcher"})
            /\ DOMAIN st = {"Service", "Endpoints", "Dispatcher"}
            /\ (Ready(st) = "True") <=>
                    (st.Service = CondTrue /\ st.Endpoints = CondTrue /\ st.Dispatcher = CondTrue))

C15_Witness ==
    \E c \in Channels :
        /\ agg.written[c]
        /\ agg.att.channel = c
        /\ agg.att.original.status.Service # CondTrue
        /\ agg.att.original.status.Endpoints # CondTrue
        /\ primaryWrites > 0
        /\ Ready(chanStore[c].status) = "True"

-----------------------------------------------------------------------------
\* C16: the store holds a channel's dispatcher service and deployment under
\* the channel's one name, so at most one of each: a pass puts one there only
\* when the store holds none, and no pass removes one. When a pass has
\* returned no error for a channel the store holds both, and so it does ever
\* after, whatever passes follow for this or the other channels.
C16_OnePerChannel ==
    /\ [](\A c \in Channels :
            (Passed(c) /\ ~last.err) => (svcStore[c] /\ depStore[c] # Absent))
    /\ [][\A c \in Channels :
            /\ svcStore[c] => svcStore'[c]
            /\ (depStore[c] # Absent) => (depStore'[c] # Absent)
            /\ (svcStore'[c] /\ ~svcStore[c]) =>
                    (last'.channel = c /\ last'.svc.created /\ last'.svc.creates = 1)
            /\ (depStore'[c] # Absent /\ depStore[c] = Absent) =>
                    (last'.channel = c /\ last'.dep.created /\ last'.dep.creates = 1)
            /\ (last'.channel = c /\ last'.svc.created) => ~svcStore[c]
            /\ (last'.channel = c /\ last'.dep.created) => (depStore[c] = Absent)]_vars

C16_Witness ==
    \E c, d \in Channels :
        /\ c # d
        /\ Passed(c) /\ ~last.err
        /\ last.svc.lookup = "found" /\ last.dep.lookup = "found"
        /\ svcStore[c] /\ depStore[c] # Absent
        /\ svcStore[d] /\ depStore[d] # Absent

Built(c) == last.channel = c /\ last.built # "none"

\* C18: for a channel with a bound secret the deployment builder gives 13
\* environment variables: the ten fixed ones, none of them from a secret,
\* then the brokers, the username and the password, each from the bound
\* secret under a key of its own; the deployment's replicas are the
\* configured ones; and building again from the same inputs gives the same
\* deployment.
C18_ThirteenEnvVars ==
    \A c \in Channels :
        (Built(c) /\ kafkaSecret[c] # "") =>
            /\ last.built = "ok"
            /\ LET env == last.deployment.env IN
               /\ Len(env) = 13
               /\ [i \in 1..10 |-> env[i].name] =
                      << "NamespaceEnvKey", "PodNameEnvVarKey", "ContainerNameEnvVarKEy",
                         "KnativeLoggingConfigMapNameEnvVarKey", "MetricsPortEnvVarKey",
                         "MetricsDomainEnvVarKey", "HealthPortEnvVarKey", "ChannelKeyEnvVarKey",
                         "ServiceNameEnvVarKey", "KafkaTopicEnvVarKey" >>
               /\ \A i \in 1..10 : env[i].secret = "" /\ env[i].key = ""
               /\ [i \in 1..3 |-> env[10 + i].name] =
                      << "KafkaBrokerEnvVarKey", "KafkaUsernameEnvVarKey", "KafkaPasswordEnvVarKey" >>
               /\ \A i \in 11..13 :
                      /\ env[i].secret = kafkaSecret[c]
                      /\ env[i].value = "" /\ env[i].fieldPath = ""
               /\ Cardinality({env[i].key : i \in 11..13}) = 3
               /\ Cardinality({env[i].name : i \in 1..13}) = 13
            /\ last.deployment.replicas = config.Replicas
            /\ last.deployment = newDispatcherDeployment(c).deployment

C18_Witness ==
    \E c \in Channels :
        /\ Built(c)
        /\ kafkaSecret[c] = "kafka-secret"
        /\ config.Replicas = 3
        /\ last.deployment.replicas = 3
        /\ Len(last.deployment.env) = 13

\* A pass for channel c has just returned no error, the store holding the
\* channel's service and deployment.
Converged(c) ==
    /\ Passed(c) /\ ~last.err
    /\ svcStore[c] /\ depStore[c] # Absent

\* C19: level-triggered convergence. For a channel with a bound secret whose
\* reconciliation is triggered again and again, on a store whose calls stop
\* failing and whose listers come to hold what was created: eventually a pass
\* returns no error with the service and the deployment in the store, and no
\* pass after it returns an error: from some pass on every pass returns no
\* error, and such passes keep being made.
C19_Converges ==
    \A c \in Channels :
        (kafkaSecret[c] # "") =>
            /\ []<>Converged(c)
            /\ <>[](Passed(c) => Converged(c))

C19_Witness ==
    \E c \in Channels :
        /\ ~failing
        /\ kafkaSecret[c] # ""
        /\ Converged(c)
        /\ last.svc.lookup = "found" /\ last.dep.lookup = "found"

-----------------------------------------------------------------------------
\* How many warning events with the reason the pass that has just returned
\* recorded on its channel.
Recorded(reason) ==
    Cardinality({i \in DOMAIN last.events : last.events[i] = reason})

\* C21: a pass records on its channel one warning event with reason
\* DispatcherServiceReconciliationFailed when the service's reconciliation
\* failed and none when it succeeded, one with reason
\* DispatcherDeploymentReconciliationFailed when the deployment's failed and
\* none when it succeeded (two events when both failed), and no other event.
C21_EventPerFailedSubResource ==
    \A c \in Channels :
        Passed(c) =>
            /\ Recorded(DispatcherServiceReconciliationFailed) = (IF last.svc.err THEN 1 ELSE 0)
            /\ Recorded(DispatcherDeploymentReconciliationFailed) = (IF last.dep.err THEN 1 ELSE 0)
            /\ Len(last.events) = Recorded(DispatcherServiceReconciliationFailed)
                                  + Recorded(DispatcherDeploymentReconciliationFailed)

\* A pass whose deployment failed while its service had been found.
C21_Witness ==
    \E c \in Channels :
        /\ Passed(c)
        /\ last.svc.lookup = "found" /\ ~last.svc.err
        /\ last.dep.err
        /\ last.events = <<DispatcherDeploymentReconciliationFailed>>

-----------------------------------------------------------------------------
\* Channel c does not carry the label of the secret of the pass.
NotMatched(c) == secretLabel[c] # agg.secret

-----------------------------------------------------------------------------
\* The pass has returned no error.
ReturnedOk == agg.pc = "done" /\ agg.result = "ok"

\* C23 as stated: when a pass has returned no error and no other writer has
\* changed the channels, every channel labelled with the secret is stored with
\* the Service and the Endpoints condition as the pass was told to mark them.
C23_StoredAsMarked ==
    (ReturnedOk /\ primaryWrites = 0) =>
        \A c \in Matching(agg.secret) : Marked(chanStore[c].status)

\* Channel c was listed as it was stored, and nothing but the pass has written
\* it since: its resourceVersion is the listed one, one more when the pass
\* wrote it.
Undisturbed(c) ==
    \E i \in DOMAIN agg.list :
        /\ agg.list[i].channel = c
        /\ chanStore[c].rv = agg.list[i].rv + (IF agg.written[c] THEN 1 ELSE 0)

\* C23: when a pass has returned no error, every channel labelled with the
\* secret that the lister held as it was stored, and that no other writer has
\* changed during the pass, is stored with the Service condition True or
\* Failed with the service reason and message, as serviceValid says, and the
\* Endpoints condition True or Failed with the deployment reason and message,
\* as deploymentValid says.
C23_StoredAsMarkedWhenListedFresh ==
    ReturnedOk =>
        \A c \in Matching(agg.secret) :
            Undisturbed(c) =>
                /\ chanStore[c].status.Service =
                       (IF agg.serviceValid THEN CondTrue
                        ELSE [status |-> "False", reason |-> ServiceReason,
                              message |-> ServiceMessage])
                /\ chanStore[c].status.Endpoints =
                       (IF agg.deploymentValid THEN CondTrue
                        ELSE [status |-> "False", reason |-> DeploymentReason,
                              message |-> DeploymentMessage])

\* A pass told that the service is valid and the deployment is not has
\* written both conditions of a channel.
C23_Witness ==
    \E c \in Channels :
        /\ ReturnedOk
        /\ agg.serviceValid /\ ~agg.deploymentValid
        /\ c \in Matching(agg.secret)
        /\ Undisturbed(c)
        /\ agg.written[c]
        /\ chanStore[c].status.Service = CondTrue
        /\ chanStore[c].status.Endpoints.status = "False"

-----------------------------------------------------------------------------
\* The pass ended at the failed List.
ListFailed == agg.pc = "done" /\ agg.result = "listerror"

\* The loop is at a nil entry of the listed result.
AtNilEntry ==
    /\ agg.pc = "loop"
    /\ agg.idx <= Len(agg.list)
    /\ agg.list[agg.idx].channel = Nil

\* C24: when the List fails the pass returns that error at once: it holds no
\* listed channel, has called the updater and UpdateStatus for no channel, and
\* the step leaves every stored channel as it was; nothing of the pass follows.
\* A nil entry of the listed result is skipped: the step only moves on to the
\* next entry, counts no failure, calls nothing and writes nothing.
C24_ListErrorAndNilEntries ==
    /\ [](agg.result = "listerror" =>
            /\ agg.pc = "done"
            /\ agg.list = <<>>
            /\ agg.att = NoAttempt
            /\ ~agg.statusUpdateErrors
            /\ \A c \in Channels :
                  /\ agg.invoked[c] = 0 /\ agg.updates[c] = 0
                  /\ ~agg.written[c] /\ agg.outcome[c] = "none")
    /\ [][(agg' # agg /\ agg'.result = "listerror") =>
            /\ agg.pc = "idle"
            /\ chanStore' = chanStore]_vars
    /\ [][ListFailed => agg' = agg]_vars
    /\ [][(AtNilEntry /\ agg' # agg) =>
            /\ agg' = [agg EXCEPT !.idx = @ + 1]
            /\ chanStore' = chanStore]_vars
    /\ [](Returned =>
            (agg.result = "error" <=> \E c \in Channels : agg.outcome[c] = "failed"))

\* The List for the secret of the first channel failed: the pass is over with
\* the List's error, no call made, and the channel is stored as the lister
\* holds it.
C24_Witness ==
    /\ ListFailed
    /\ agg.secret = "kafka-secret"
    /\ "ns1/chan-a" \in Matching(agg.secret)
    /\ agg.updates["ns1/chan-a"] = 0
    /\ chanStore["ns1/chan-a"] = chanLister["ns1/chan-a"]

\* A pass whose listed result began with a nil entry returned no error after
\* updating a channel.
C24_NilSkipped ==
    /\ Returned /\ agg.result = "ok"
    /\ Len(agg.list) > 1
    /\ agg.list[1].channel = Nil
    /\ agg.written[agg.list[2].channel]

=============================================================================
